---- MODULE Spec2Model ----
(***************************************************************************)
(* Tensor WebSocket listener (src/src/templates/delist-email.ts, from line *)
(* 123 on): connection lifecycle (connect, open, close, error, reconnect   *)
(* with exponential backoff, shutdown) and the transaction reconciler      *)
(* (handleTransaction: lookup, then insert or update of one row of the     *)
(* nfts table).                                                            *)
(*                                                                         *)
(* Every 'message' callback is an async function that the socket's event   *)
(* emitter does not await: the callback runs synchronously up to its first *)
(* await (the storage lookup) and returns; its continuations run when the  *)
(* storage answers.  An in-flight invocation is a record of the set        *)
(* handlers; a finished invocation leaves no state behind.                 *)
(***************************************************************************)
EXTENDS Integers, Sequences, FiniteSets, TLC

VARIABLES
    readyState,         \* readyState of the socket held by currentSocket
    reconnectAttempts,  \* let reconnectAttempts
    timers,             \* pending setTimeout(connect, delay) timers: their delays
    pingInterval,       \* "null" | "active" | "cleared" (handle kept, interval cleared)
    isShuttingDown,     \* let isShuttingDown
    exitTimer,          \* a setTimeout(process.exit(0), 1000) timer is pending
    exited,             \* the process has called process.exit
    exitCode,           \* the status handed to process.exit, NoExit while running
    sent,               \* frames sent on the current socket since it opened
    nFrames,            \* frames received so far; also the clock read by new Date()
    handlers,           \* in-flight handleTransaction invocations
    store,              \* rows of the nfts table
    notifications,      \* summaries handed to the notification service
    closesSinceOpen,    \* history: unrequested closes since the last open (or start)
    framesSpanSockets,  \* history: a socket was created after a frame had been received
    env,                \* process.env: the names of the variables that are set
    call,               \* the invocation of a notification sender, NoCall if none
    discord             \* the Discord notifier's client, isInitialized, cachedSolPrice

connVars == <<readyState, reconnectAttempts, timers, pingInterval, isShuttingDown,
              exitTimer, exited, exitCode, sent, closesSinceOpen, framesSpanSockets>>
dataVars == <<nFrames, handlers, store, notifications>>
vars == <<readyState, reconnectAttempts, timers, pingInterval, isShuttingDown,
          exitTimer, exited, exitCode, sent, nFrames, handlers, store, notifications,
          closesSinceOpen, framesSpanSockets, env, call, discord>>
auxVars == <<env, call, discord>>
listenerVars == <<readyState, reconnectAttempts, timers, pingInterval, isShuttingDown,
                  exitTimer, exited, exitCode, sent, nFrames, handlers,
                  closesSinceOpen, framesSpanSockets>>

(***************************************************************************)
(* Bounds of the exploration.                                              *)
(***************************************************************************)
MaxFrames == 2          \* frames received in one run
MaxAttempts == 6        \* consecutive failed connects explored while no frame was received
MaxAttemptsBusy == 1    \* the same, once a frame has been received
MaxPings == 1           \* keep-alive pings sent on one socket

(***************************************************************************)
(* Program constants.                                                      *)
(***************************************************************************)
MAX_RECONNECT_DELAY == 30000
ReconnectBaseMs == 1000
UsdcDecimals == 6
SolDecimals == 9
NameLimit == 32
ExitSuccess == 0        \* process.exit(0)
ExitFailure == 1        \* process.exit(1)
HIGH_VALUE_THRESHOLD_USDC == 600
FallbackSolPrice == 150

USDC_MINT == "EPjFWdd5AufqSSqeM2qN1xzybapC8G4wEGGkZwyTDt1v"
SOL_MINT == "So11111111111111111111111111111111111111112"
COLLECTOR_CRYPT == "3c8b5c19-68fc-4682-8f13-8abdf9225844"
PHYGITALS == "6f582e94-e4ed-41ab-9285-4bf456b0768a"

(***************************************************************************)
(* JavaScript values.  undefined and null are kept apart where the code    *)
(* tells them apart (JSON.stringify drops an undefined property, keeps a   *)
(* null one).  An absent number is NoAmount, a null number NullInt, a null *)
(* price the empty tuple, a null or empty string-with-slice the empty      *)
(* sequence, a null timestamp NullTime.                                    *)
(***************************************************************************)
Undef == "undefined"
Null == "null"
NoAmount == 0 - 1
NullInt == 0 - 1
NullPrice == << >>
NullName == << >>
NullTime == 0 - 1
NoExit == 0 - 1
NoPrice == 0 - 1

Truthy(s) == s \notin {Undef, Null, ""}

Min(a, b) == IF a <= b THEN a ELSE b

\* Array.prototype.slice(0, n) on a string, as a sequence of characters
Slice(s, n) == SubSeq(s, 1, Min(Len(s), n))

RECURSIVE Pow(_, _)
Pow(b, e) == IF e = 0 THEN 1 ELSE b * Pow(b, e - 1)

(***************************************************************************)
(* Transaction events: what handleTransaction reads of one decoded frame   *)
(* (message.data.tx.tx and message.data.tx.mint).                          *)
(***************************************************************************)
ShortName == <<"c", "a", "r", "d">>
LongName == [i \in 1..(NameLimit + 1) |-> "x"]

BaseEv == [txType |-> "LIST", mint |-> "m1", seller |-> "A", buyer |-> Undef,
           grossAmount |-> 1500000000, unit |-> SOL_MINT, name |-> ShortName,
           owner |-> Undef, collId |-> Undef, mintCollId |-> COLLECTOR_CRYPT,
           image |-> Undef, attributes |-> Undef]

EvListSol == BaseEv
EvListUsdc == [BaseEv EXCEPT !.unit = USDC_MINT, !.grossAmount = 600000000,
                             !.owner = "C", !.name = LongName,
                             !.collId = PHYGITALS, !.image = "http://img"]
EvEditNoAmount == [BaseEv EXCEPT !.txType = "EDIT_SINGLE_LISTING",
                                 !.grossAmount = NoAmount]
EvDelist == [BaseEv EXCEPT !.txType = "DELIST", !.seller = Undef,
                           !.grossAmount = NoAmount]
EvSale == [BaseEv EXCEPT !.txType = "SALE", !.buyer = "B"]
EvAcceptBid == [BaseEv EXCEPT !.txType = "ACCEPT_BID", !.mint = "m2",
                              !.seller = Undef, !.buyer = "B",
                              !.unit = USDC_MINT, !.grossAmount = 0,
                              !.name = NullName, !.mintCollId = "other"]
EvBid == [BaseEv EXCEPT !.txType = "BID"]
EvNoMint == [BaseEv EXCEPT !.mint = Undef]

Events == {EvListSol, EvListUsdc, EvEditNoAmount, EvDelist, EvSale, EvAcceptBid,
           EvBid, EvNoMint}

ListKinds == {"LIST", "EDIT_SINGLE_LISTING"}
SaleKinds == {"SALE", "ACCEPT_BID"}
SupportedKinds == ListKinds \cup {"DELIST"} \cup SaleKinds

(***************************************************************************)
(* Price calculation (lines 332-335).  A price is kept exactly, as whole   *)
(* units and billionths: <<1, 500000000>> is 1.5.                          *)
(***************************************************************************)
IsUSDC(ev) == ev.unit = USDC_MINT

\* a price calculation that divides every amount by 10^9
DecimalsAlwaysNine(ev) == SolDecimals

Decimals(ev) == IF IsUSDC(ev) THEN UsdcDecimals ELSE SolDecimals

\* `grossAmount ? ... : null`: undefined and 0 are falsy
HasAmount(ev) == ev.grossAmount \notin {NoAmount, 0}

Price(ev) ==
    IF HasAmount(ev)
    THEN LET unitSize == Pow(10, Decimals(ev))
         IN  <<ev.grossAmount \div unitSize,
               (ev.grossAmount % unitSize) * Pow(10, SolDecimals - Decimals(ev))>>
    ELSE NullPrice

Lamports(ev) == IF ~IsUSDC(ev) /\ HasAmount(ev) THEN ev.grossAmount ELSE NullInt

(***************************************************************************)
(* The update payload (lines 340-392).  The payload is sent as JSON, which *)
(* drops a property whose value is undefined: the column is then left as   *)
(* it is.                                                                  *)
(***************************************************************************)
NoFields == [k \in {} |-> Null]

Field(k, v) == IF v = Undef THEN NoFields ELSE [x \in {k} |-> v]

ClearedListing == [is_listed |-> FALSE, price_lamports |-> NullInt,
                   price_sol |-> NullPrice, price_native |-> NullPrice,
                   currency_address |-> Null, marketplace |-> Null,
                   listed_at |-> NullTime]

\* a listing that fills both price columns
ListPayloadBothPrices(ev, now) ==
    [is_listed |-> TRUE,
     price_lamports |-> Lamports(ev),
     price_sol |-> Price(ev),
     price_native |-> Price(ev),
     currency_address |-> IF IsUSDC(ev) THEN USDC_MINT ELSE SOL_MINT,
     marketplace |-> "tensor",
     listed_at |-> now] @@ Field("owner", ev.seller)

ListPayload(ev, now) ==
    [is_listed |-> TRUE,
     price_lamports |-> Lamports(ev),
     price_sol |-> IF IsUSDC(ev) THEN NullPrice ELSE Price(ev),
     price_native |-> IF IsUSDC(ev) THEN Price(ev) ELSE NullPrice,
     currency_address |-> IF IsUSDC(ev) THEN USDC_MINT ELSE SOL_MINT,
     marketplace |-> "tensor",
     listed_at |-> now] @@ Field("owner", ev.seller)

\* a delisting that keeps the marketplace and the currency of the listing
DelistPayloadKeepsMarket(ev, now) ==
    [is_listed |-> FALSE, price_lamports |-> NullInt,
     price_sol |-> NullPrice, price_native |-> NullPrice,
     listed_at |-> NullTime]

DelistPayload(ev, now) == ClearedListing

SalePayload(ev, now) == ClearedListing @@ Field("owner", ev.buyer)

\* an update that also refreshes the record from the event's metadata
UpdatePayloadWithMetadata(ev, now) ==
    [updated_at |-> now, full_name |-> ev.name, image |-> IF Truthy(ev.image) THEN ev.image ELSE Null] @@
    (CASE ev.txType \in ListKinds -> ListPayload(ev, now)
       [] ev.txType = "DELIST" -> DelistPayload(ev, now)
       [] ev.txType \in SaleKinds -> SalePayload(ev, now))

UpdatePayload(ev, now) ==
    [updated_at |-> now] @@
    (CASE ev.txType \in ListKinds -> ListPayload(ev, now)
       [] ev.txType = "DELIST" -> DelistPayload(ev, now)
       [] ev.txType \in SaleKinds -> SalePayload(ev, now))

\* an update that fills a price column only where the row has none
ApplyUpdateKeepsPrice(row, payload) ==
    [k \in DOMAIN row |->
        IF k \in DOMAIN payload /\ ~(k = "price_sol" /\ row[k] # NullPrice)
        THEN payload[k] ELSE row[k]]

\* .update(payload).eq('mint_address', m): the named columns are overwritten
ApplyUpdate(row, payload) ==
    [k \in DOMAIN row |-> IF k \in DOMAIN payload THEN payload[k] ELSE row[k]]

(***************************************************************************)
(* The insert payload (lines 431-460).                                     *)
(***************************************************************************)
DetectedCollectionSlug(ev) ==
    LET collId == IF Truthy(ev.collId) THEN ev.collId ELSE ev.mintCollId
    IN  IF collId = COLLECTOR_CRYPT THEN "collector-crypt"
        ELSE IF collId = PHYGITALS THEN "phygitals"
        ELSE "unknown"

OrNull(v) == IF Truthy(v) THEN v ELSE Null

\* an insert that prefers the seller to the owner named by the metadata
InsertOwnerSellerFirst(ev) ==
    IF Truthy(ev.seller) THEN ev.seller
    ELSE IF Truthy(ev.owner) THEN ev.owner
    ELSE IF Truthy(ev.buyer) THEN ev.buyer
    ELSE Null

InsertOwner(ev) ==
    IF Truthy(ev.owner) THEN ev.owner
    ELSE IF Truthy(ev.seller) THEN ev.seller
    ELSE IF Truthy(ev.buyer) THEN ev.buyer
    ELSE Null

InsertPayload(ev, now) ==
    LET listing == ev.txType \in ListKinds
    IN  [mint_address |-> ev.mint,
         name |-> IF ev.name # NullName THEN Slice(ev.name, NameLimit) ELSE NullName,
         full_name |-> ev.name,
         collection_slug |-> DetectedCollectionSlug(ev),
         owner |-> InsertOwner(ev),
         image |-> OrNull(ev.image),
         attributes |-> OrNull(ev.attributes),
         is_listed |-> listing,
         price_lamports |-> IF listing THEN Lamports(ev) ELSE NullInt,
         price_sol |-> IF listing /\ ~IsUSDC(ev) THEN Price(ev) ELSE NullPrice,
         price_native |-> IF listing /\ IsUSDC(ev) THEN Price(ev) ELSE NullPrice,
         currency_address |-> IF listing
                              THEN (IF IsUSDC(ev) THEN USDC_MINT ELSE SOL_MINT)
                              ELSE Null,
         marketplace |-> IF listing THEN "tensor" ELSE Null,
         listed_at |-> IF listing THEN now ELSE NullTime,
         updated_at |-> now]

(***************************************************************************)
(* The nfts table: at most one row per mint_address.                       *)
(***************************************************************************)
RowsOf(rows, m) == {r \in rows : r.mint_address = m}

HasRow(rows, m) == RowsOf(rows, m) # {}

RowOf(rows, m) == CHOOSE r \in rows : r.mint_address = m

\* The table when the process starts: empty, or holding a row that an earlier
\* run of the listener wrote (at time 0) for a listing of m1 by wallet S.
SeedRow == InsertPayload([EvListSol EXCEPT !.seller = "S"], 0)

InitialStores == {{}, {SeedRow}}

(***************************************************************************)
(* Inbound frames and their classification by the 'message' callback       *)
(* (lines 233-265).                                                        *)
(***************************************************************************)
JsonFrame(type, err, hasTx, ev) ==
    [raw |-> "json", type |-> type, err |-> err, hasTx |-> hasTx, ev |-> ev]

RawFrame(raw) == [JsonFrame(Undef, FALSE, FALSE, BaseEv) EXCEPT !.raw = raw]

\* "empty": data.toString() is ''; "garbage": JSON.parse throws;
\* "jsonnull": JSON.parse gives null, and reading message.type throws
Frames ==
    {RawFrame("empty"), RawFrame("garbage"), RawFrame("jsonnull"),
     JsonFrame("pong", FALSE, FALSE, BaseEv),
     JsonFrame("pong", TRUE, TRUE, EvListSol),
     JsonFrame("newTransaction", TRUE, TRUE, EvListSol),
     JsonFrame("subscribed", FALSE, FALSE, BaseEv),
     JsonFrame("newTransaction", FALSE, FALSE, BaseEv)}
    \cup {JsonFrame("newTransaction", FALSE, TRUE, ev) : ev \in Events}

\* a callback that looks for a transaction before it looks for an error
ClassifyTransactionFirst(f) ==
    IF f.raw = "empty" THEN "empty"
    ELSE IF f.raw # "json" THEN "parse_error"
    ELSE IF f.type = "pong" THEN "pong"
    ELSE IF f.type = "newTransaction" /\ f.hasTx THEN "transaction"
    ELSE IF f.err THEN "error"
    ELSE "unrecognized"

Classify(f) ==
    IF f.raw = "empty" THEN "empty"
    ELSE IF f.raw # "json" THEN "parse_error"
    ELSE IF f.type = "pong" THEN "pong"
    ELSE IF f.err THEN "error"
    ELSE IF f.type = "newTransaction" /\ f.hasTx THEN "transaction"
    ELSE "unrecognized"

\* a switch without its default case
StartOfNoDefault(ev) == IF ~Truthy(ev.mint) THEN "no_mint" ELSE "select"

\* handleTransaction up to its first await (lines 300-402)
StartOf(ev) ==
    IF ~Truthy(ev.mint) THEN "no_mint"
    ELSE IF ev.txType \notin SupportedKinds THEN "unhandled"
    ELSE "select"

Reaches(f) == Classify(f) = "transaction" /\ StartOf(f.ev) = "select"

(***************************************************************************)
(* Reconnection with exponential backoff (lines 288-297).                  *)
(***************************************************************************)
\* a backoff without its cap
ReconnectDelayUncapped(attempts) == ReconnectBaseMs * Pow(2, attempts)

ReconnectDelay(attempts) ==
    Min(ReconnectBaseMs * Pow(2, attempts), MAX_RECONNECT_DELAY)

AttemptsAfterClose(attempts) == attempts + 1

\* an open that forgets to reset the counter
AttemptsKeptOnOpen(attempts) == attempts

AttemptsAfterOpen(attempts) == 0

\* a backoff that gives up after three attempts
TimersGiveUp(ts, attempts) ==
    IF attempts > 3 THEN ts ELSE Append(ts, ReconnectBaseMs * Pow(2, attempts))

TimersAfterSchedule(ts, attempts) == Append(ts, ReconnectDelay(attempts))

\* an open handler that subscribes by collection identifier only
SubscriptionsByIdOnly ==
    <<[event |-> "newTransaction", key |-> "collId", value |-> COLLECTOR_CRYPT],
      [event |-> "newTransaction", key |-> "collId", value |-> PHYGITALS]>>

Subscriptions ==
    <<[event |-> "newTransaction", key |-> "collId", value |-> COLLECTOR_CRYPT],
      [event |-> "newTransaction", key |-> "collId", value |-> PHYGITALS],
      [event |-> "newTransaction", key |-> "slug", value |-> "collector_crypt"],
      [event |-> "newTransaction", key |-> "slug", value |-> "phygitals"]>>

Ping == [event |-> "ping", key |-> "none", value |-> "none"]

Pings(s) == Cardinality({i \in 1..Len(s) : s[i] = Ping})

(***************************************************************************)
(* The configuration validation (lines 156-164) and the state after the    *)
(* module's top level has run: with its credentials set, connect() has     *)
(* created the first socket; with one missing, process.exit(1) has ended   *)
(* the process before createClient and connect() (currentSocket is null:   *)
(* readyState "NONE").  The listener does not load the notifiers.          *)
(***************************************************************************)
RequiredVars == {"TENSOR_API_KEY", "SUPABASE_URL", "SUPABASE_SERVICE_KEY"}

\* a validation that looks at the Tensor key only
ConfigValidTensorOnly(e) == "TENSOR_API_KEY" \in e

ConfigValid(e) == "TENSOR_API_KEY" \in e /\ {"SUPABASE_URL", "SUPABASE_SERVICE_KEY"} \subseteq e

NoCall == [fn |-> "none", status |-> "none"]

\* the Discord notifier's module state when it is loaded; init is the position
\* of the initializeDiscord call ("none": not called) and readyListener says
\* that a once('clientReady') listener is registered and has not run
DiscordAtLoad == [client |-> FALSE, isInitialized |-> FALSE, cachedSolPrice |-> NoPrice,
                  init |-> "none", readyListener |-> FALSE]

Init ==
    /\ env \in SUBSET RequiredVars
    /\ call = NoCall
    /\ discord = DiscordAtLoad
    /\ IF ConfigValid(env)
       THEN readyState = "CONNECTING" /\ exited = FALSE /\ exitCode = NoExit
       ELSE readyState = "NONE" /\ exited = TRUE /\ exitCode = ExitFailure
    /\ reconnectAttempts = 0
    /\ timers = << >>
    /\ pingInterval = "null"
    /\ isShuttingDown = FALSE
    /\ exitTimer = FALSE
    /\ sent = << >>
    /\ nFrames = 0
    /\ handlers = {}
    /\ store \in InitialStores
    /\ notifications = << >>
    /\ closesSinceOpen = 0
    /\ framesSpanSockets = FALSE

\* the exploration's cap on consecutive failed connects
AttemptCap == IF nFrames = 0 THEN MaxAttempts ELSE MaxAttemptsBusy

(***************************************************************************)
(* socket.on('open') (lines 202-230)                                       *)
(***************************************************************************)
SocketOpen ==
    /\ ~exited
    /\ readyState = "CONNECTING"
    /\ readyState' = "OPEN"
    /\ reconnectAttempts' = AttemptsAfterOpen(reconnectAttempts)
    /\ sent' = Subscriptions
    /\ pingInterval' = "active"
    /\ closesSinceOpen' = 0
    /\ UNCHANGED <<timers, isShuttingDown, exitTimer, exited, exitCode, framesSpanSockets>>
    /\ UNCHANGED dataVars
    /\ UNCHANGED auxVars

(***************************************************************************)
(* The interval callback (lines 225-229)                                   *)
(***************************************************************************)
PingTick ==
    /\ ~exited
    /\ pingInterval = "active"
    /\ Pings(sent) < MaxPings
    /\ sent' = IF readyState = "OPEN" THEN Append(sent, Ping) ELSE sent
    /\ UNCHANGED <<readyState, reconnectAttempts, timers, pingInterval,
                   isShuttingDown, exitTimer, exited, exitCode, closesSinceOpen,
                   framesSpanSockets>>
    /\ UNCHANGED dataVars
    /\ UNCHANGED auxVars

(***************************************************************************)
(* socket.on('close') (lines 268-279), with scheduleReconnect (288-297)    *)
(***************************************************************************)
\* a close handler that leaves the keep-alive interval running
SocketCloseKeepsPing ==
    /\ ~exited
    /\ readyState \in {"CONNECTING", "OPEN", "CLOSING"}
    /\ isShuttingDown \/ reconnectAttempts < AttemptCap
    /\ readyState' = "CLOSED"
    /\ sent' = << >>
    /\ IF ~isShuttingDown
       THEN /\ reconnectAttempts' = AttemptsAfterClose(reconnectAttempts)
            /\ timers' = TimersAfterSchedule(timers, reconnectAttempts')
            /\ closesSinceOpen' = closesSinceOpen + 1
       ELSE UNCHANGED <<reconnectAttempts, timers, closesSinceOpen>>
    /\ UNCHANGED <<pingInterval, isShuttingDown, exitTimer, exited, exitCode,
                   framesSpanSockets>>
    /\ UNCHANGED dataVars
    /\ UNCHANGED auxVars

\* a close handler that waits for nothing but abandons the invocations in flight
SocketCloseDropsHandlers ==
    /\ ~exited
    /\ readyState \in {"CONNECTING", "OPEN", "CLOSING"}
    /\ isShuttingDown \/ reconnectAttempts < AttemptCap
    /\ readyState' = "CLOSED"
    /\ sent' = << >>
    /\ pingInterval' = IF pingInterval # "null" THEN "null" ELSE pingInterval
    /\ IF ~isShuttingDown
       THEN /\ reconnectAttempts' = AttemptsAfterClose(reconnectAttempts)
            /\ timers' = TimersAfterSchedule(timers, reconnectAttempts')
            /\ closesSinceOpen' = closesSinceOpen + 1
       ELSE UNCHANGED <<reconnectAttempts, timers, closesSinceOpen>>
    /\ handlers' = {}
    /\ UNCHANGED <<isShuttingDown, exitTimer, exited, exitCode, framesSpanSockets>>
    /\ UNCHANGED <<nFrames, store, notifications>>
    /\ UNCHANGED auxVars

SocketClose ==
    /\ ~exited
    /\ readyState \in {"CONNECTING", "OPEN", "CLOSING"}
    /\ isShuttingDown \/ reconnectAttempts < AttemptCap
    /\ readyState' = "CLOSED"
    /\ sent' = << >>
    /\ pingInterval' = IF pingInterval # "null" THEN "null" ELSE pingInterval
    /\ IF ~isShuttingDown
       THEN /\ reconnectAttempts' = AttemptsAfterClose(reconnectAttempts)
            /\ timers' = TimersAfterSchedule(timers, reconnectAttempts')
            /\ closesSinceOpen' = closesSinceOpen + 1
       ELSE UNCHANGED <<reconnectAttempts, timers, closesSinceOpen>>
    /\ UNCHANGED <<isShuttingDown, exitTimer, exited, exitCode, framesSpanSockets>>
    /\ UNCHANGED dataVars
    /\ UNCHANGED auxVars

(***************************************************************************)
(* socket.on('error') (lines 281-284): logs, nothing else                  *)
(***************************************************************************)
\* an error handler that schedules a reconnect of its own
SocketErrorSchedules ==
    /\ ~exited
    /\ readyState \in {"CONNECTING", "OPEN", "CLOSING"}
    /\ ~isShuttingDown
    /\ reconnectAttempts < AttemptCap
    /\ reconnectAttempts' = AttemptsAfterClose(reconnectAttempts)
    /\ timers' = TimersAfterSchedule(timers, reconnectAttempts')
    /\ closesSinceOpen' = closesSinceOpen + 1
    /\ UNCHANGED <<readyState, pingInterval, isShuttingDown, exitTimer, exited,
                   exitCode, sent, framesSpanSockets>>
    /\ UNCHANGED dataVars
    /\ UNCHANGED auxVars

SocketError ==
    /\ ~exited
    /\ readyState \in {"CONNECTING", "OPEN", "CLOSING"}
    /\ UNCHANGED vars

(***************************************************************************)
(* The reconnect timer fires and calls connect() (lines 294-296, 177-199)  *)
(***************************************************************************)
\* a timer callback whose connect() does not look at isShuttingDown
ReconnectTimerFiresUnguarded ==
    /\ ~exited
    /\ \E i \in 1..Len(timers) :
          timers' = SubSeq(timers, 1, i - 1) \o SubSeq(timers, i + 1, Len(timers))
    /\ readyState' = "CONNECTING"
    /\ sent' = << >>
    /\ framesSpanSockets' = (framesSpanSockets \/ nFrames > 0)
    /\ UNCHANGED <<reconnectAttempts, pingInterval, isShuttingDown, exitTimer,
                   exited, exitCode, closesSinceOpen>>
    /\ UNCHANGED dataVars
    /\ UNCHANGED auxVars

\* a timer that stays armed after its callback ran (setInterval for setTimeout)
ReconnectTimerRepeats ==
    /\ ~exited
    /\ timers # << >>
    /\ IF isShuttingDown
       THEN UNCHANGED <<readyState, sent, framesSpanSockets>>
       ELSE /\ readyState' = "CONNECTING"
            /\ sent' = << >>
            /\ framesSpanSockets' = (framesSpanSockets \/ nFrames > 0)
    /\ UNCHANGED <<reconnectAttempts, timers, pingInterval, isShuttingDown, exitTimer,
                   exited, exitCode, closesSinceOpen>>
    /\ UNCHANGED dataVars
    /\ UNCHANGED auxVars

ReconnectTimerFires ==
    /\ ~exited
    /\ \E i \in 1..Len(timers) :
          timers' = SubSeq(timers, 1, i - 1) \o SubSeq(timers, i + 1, Len(timers))
    /\ IF isShuttingDown
       THEN UNCHANGED <<readyState, sent, framesSpanSockets>>
       ELSE /\ readyState' = "CONNECTING"
            /\ sent' = << >>
            /\ framesSpanSockets' = (framesSpanSockets \/ nFrames > 0)
    /\ UNCHANGED <<reconnectAttempts, pingInterval, isShuttingDown, exitTimer,
                   exited, exitCode, closesSinceOpen>>
    /\ UNCHANGED dataVars
    /\ UNCHANGED auxVars

(***************************************************************************)
(* shutdown(signal) (lines 485-502) and its exit timer.  process.exit      *)
(* discards the process: its socket, its timers and its in-flight          *)
(* invocations are gone; the table outlives it.                            *)
(***************************************************************************)
\* a shutdown that exits at once, without a grace period
ShutdownExitsAtOnce ==
    /\ ~exited
    /\ isShuttingDown' = TRUE
    /\ exited' = TRUE
    /\ exitCode' = ExitSuccess
    /\ readyState' = "CLOSED"
    /\ timers' = << >>
    /\ exitTimer' = FALSE
    /\ pingInterval' = "null"
    /\ sent' = << >>
    /\ handlers' = {}
    /\ UNCHANGED <<reconnectAttempts, closesSinceOpen, framesSpanSockets,
                   nFrames, store, notifications>>
    /\ UNCHANGED auxVars

\* a shutdown that arms its exit timer only after closing an open socket
ShutdownArmsOnlyWhenOpen ==
    /\ ~exited
    /\ isShuttingDown' = TRUE
    /\ pingInterval' = IF pingInterval # "null" THEN "cleared" ELSE pingInterval
    /\ readyState' = IF readyState = "OPEN" THEN "CLOSING" ELSE readyState
    /\ exitTimer' = (exitTimer \/ readyState = "OPEN")
    /\ UNCHANGED <<reconnectAttempts, timers, exited, exitCode, sent,
                   closesSinceOpen, framesSpanSockets>>
    /\ UNCHANGED dataVars
    /\ UNCHANGED auxVars

Shutdown ==
    /\ ~exited
    /\ isShuttingDown' = TRUE
    /\ pingInterval' = IF pingInterval # "null" THEN "cleared" ELSE pingInterval
    /\ readyState' = IF readyState = "OPEN" THEN "CLOSING" ELSE readyState
    /\ exitTimer' = TRUE
    /\ UNCHANGED <<reconnectAttempts, timers, exited, exitCode, sent,
                   closesSinceOpen, framesSpanSockets>>
    /\ UNCHANGED dataVars
    /\ UNCHANGED auxVars

ExitTimerFires ==
    /\ ~exited
    /\ exitTimer
    /\ exited' = TRUE
    /\ exitCode' = ExitSuccess
    /\ readyState' = "CLOSED"
    /\ timers' = << >>
    /\ exitTimer' = FALSE
    /\ pingInterval' = "null"
    /\ sent' = << >>
    /\ handlers' = {}
    /\ UNCHANGED <<reconnectAttempts, isShuttingDown, closesSinceOpen, framesSpanSockets,
                   nFrames, store, notifications>>
    /\ UNCHANGED auxVars

(***************************************************************************)
(* socket.on('message') (lines 233-265): the callback up to its first      *)
(* await.  A frame that reaches the reconciler leaves an invocation        *)
(* awaiting the lookup; every other frame is finished at once.             *)
(***************************************************************************)
NewHandler(f, now) == [seq |-> now, ev |-> f.ev, pc |-> "select"]

HandlersAfterMessage(hs, f, now) ==
    IF Reaches(f) THEN hs \cup {NewHandler(f, now)} ELSE hs

\* a callback whose catch block tears the socket down
ReceiveFailClosed(f) ==
    /\ ~exited
    /\ readyState \in {"OPEN", "CLOSING"}
    /\ nFrames < MaxFrames
    /\ nFrames' = nFrames + 1
    /\ handlers' = HandlersAfterMessage(handlers, f, nFrames + 1)
    /\ readyState' = IF Classify(f) = "parse_error" THEN "CLOSED" ELSE readyState
    /\ UNCHANGED <<store, notifications>>
    /\ UNCHANGED <<reconnectAttempts, timers, pingInterval, isShuttingDown,
                   exitTimer, exited, exitCode, sent, closesSinceOpen,
                   framesSpanSockets>>
    /\ UNCHANGED auxVars

Receive(f) ==
    /\ ~exited
    /\ readyState \in {"OPEN", "CLOSING"}
    /\ nFrames < MaxFrames
    /\ nFrames' = nFrames + 1
    /\ handlers' = HandlersAfterMessage(handlers, f, nFrames + 1)
    /\ UNCHANGED <<store, notifications>>
    /\ UNCHANGED connVars
    /\ UNCHANGED auxVars

(***************************************************************************)
(* The lookup answers (lines 398-409, 428-460).  "error" is an error other *)
(* than PGRST116, "throw" a rejected promise.                              *)
(***************************************************************************)
BranchOf(rows, ev) == IF HasRow(rows, ev.mint) THEN "update" ELSE "insert"

\* a lookup whose every error is taken for "not found"
SelectDoneErrorInserts(h, outcome) ==
    /\ ~exited
    /\ h \in handlers
    /\ h.pc = "select"
    /\ handlers' = IF outcome = "ok"
                   THEN (handlers \ {h}) \cup {[h EXCEPT !.pc = BranchOf(store, h.ev)]}
                   ELSE IF outcome = "error"
                   THEN (handlers \ {h}) \cup {[h EXCEPT !.pc = "insert"]}
                   ELSE handlers \ {h}
    /\ UNCHANGED <<nFrames, store, notifications>>
    /\ UNCHANGED connVars
    /\ UNCHANGED auxVars

SelectDone(h, outcome) ==
    /\ ~exited
    /\ h \in handlers
    /\ h.pc = "select"
    /\ handlers' = IF outcome = "ok"
                   THEN (handlers \ {h}) \cup {[h EXCEPT !.pc = BranchOf(store, h.ev)]}
                   ELSE handlers \ {h}
    /\ UNCHANGED <<nFrames, store, notifications>>
    /\ UNCHANGED connVars
    /\ UNCHANGED auxVars

(***************************************************************************)
(* The write answers (lines 414-427, 465-477); the invocation ends.        *)
(* mint_address is the table's key: an insert of a present key fails.      *)
(***************************************************************************)
StoreAfterWrite(rows, h) ==
    IF h.pc = "update"
    THEN IF HasRow(rows, h.ev.mint)
         THEN (rows \ RowsOf(rows, h.ev.mint))
              \cup {ApplyUpdate(RowOf(rows, h.ev.mint), UpdatePayload(h.ev, h.seq))}
         ELSE rows
    ELSE IF HasRow(rows, h.ev.mint)
         THEN rows
         ELSE rows \cup {InsertPayload(h.ev, h.seq)}

NotificationsAfterWrite(ns, rows, h) == ns

WriteDone(h, outcome) ==
    /\ ~exited
    /\ h \in handlers
    /\ h.pc \in {"update", "insert"}
    /\ handlers' = handlers \ {h}
    /\ store' = IF outcome = "ok" THEN StoreAfterWrite(store, h) ELSE store
    /\ notifications' = NotificationsAfterWrite(notifications, store', h)
    /\ UNCHANGED nFrames
    /\ UNCHANGED connVars
    /\ UNCHANGED auxVars

StorageOutcomes == {"ok", "error", "throw"}

Next ==
    \/ SocketOpen
    \/ PingTick
    \/ SocketClose
    \/ SocketError
    \/ ReconnectTimerFires
    \/ Shutdown
    \/ ExitTimerFires
    \/ \E f \in Frames : Receive(f)
    \/ \E h \in handlers, o \in StorageOutcomes : SelectDone(h, o)
    \/ \E h \in handlers, o \in StorageOutcomes : WriteDone(h, o)

Spec == Init /\ [][Next]_vars

\* Timers fire: a pending setTimeout callback runs while the process lives.
LiveSpec == Spec /\ WF_vars(ReconnectTimerFires) /\ WF_vars(ExitTimerFires)

(***************************************************************************)
(* The notification service (src/unnamed/part_001) and the Discord         *)
(* notifier (src/unnamed/part_000).  One call of a sender at a time is     *)
(* followed from its entry to its end; each await is one step whose        *)
(* outcome the outside world chooses.                                      *)
(*   call.pc      the await the call is suspended at                       *)
(*   call.status  "pending", "returned" (the promise resolved) or "thrown" *)
(*                (the promise rejected: the failure reached the caller)   *)
(*   call.log     what the sender logged last                              *)
(***************************************************************************)
EmailSenders == {"sendSaleNotification", "sendOfferNotification",
                 "sendListNotification", "sendDelistNotification"}
AlertSender == "sendHighValueListingAlert"
Senders == EmailSenders \cup {AlertSender}

NotifierVars == {"RESEND_API_KEY", "DISCORD_CHANNEL_ID", "DISCORD_BOT_TOKEN"}

\* the wallet and the price of the event as the caller passes them: a field
\* the event lacks is undefined
NotificationData == [wallet : {"W", Undef}, price : {NoPrice, 5, 700},
                     currency : {"SOL", "USDC"}]

\* what Jupiter answers: a price, or no usable answer
JupiterAnswers == {100, 200, NoPrice}

ProfileOutcomes == {"found", "no_email", "not_found", "error", "throw"}
SendOutcomes == {"ok", "error", "throw"}
ChannelOutcomes == {"text", "null", "not_text", "throw"}

\* a sender whose catch block rethrows
EndedRethrows(raised) == IF raised THEN "thrown" ELSE "returned"

\* try { ... } catch (err) { console.error(...) }: the body's exception ends
\* the call like a return does
Ended(raised) == "returned"

Pending(fn, d, pc) ==
    [fn |-> fn, data |-> d, pc |-> pc, status |-> "pending", log |-> "none"]

Finish(c, raised, log) == [c EXCEPT !.status = Ended(raised), !.log = log]

\* truncateWallet of part_001 reads wallet.length
TruncateWalletRaises(wallet) == wallet = Undef

\* getUserProfile: "profile", "null", or "raise" when the catch block's own
\* log line raises
GetUserProfile(wallet, outcome) ==
    CASE outcome = "found" -> "profile"
      [] outcome \in {"no_email", "not_found"} -> "null"
      [] outcome \in {"error", "throw"} ->
            IF TruncateWalletRaises(wallet) THEN "raise" ELSE "null"

\* the sender's code between the profile lookup and resend.emails.send
AfterProfile(c, res) ==
    IF res = "raise" THEN Finish(c, TRUE, "caught")
    ELSE IF res = "null"
         THEN IF TruncateWalletRaises(c.data.wallet)
              THEN Finish(c, TRUE, "caught")
              ELSE Finish(c, FALSE, "no_email")
    ELSE IF c.fn # "sendDelistNotification" /\ c.data.price = NoPrice
         THEN Finish(c, TRUE, "caught")
    ELSE [c EXCEPT !.pc = "send"]

\* the threshold test: a comparison with NaN or undefined is false
AfterValue(c, usdcValue) ==
    IF usdcValue # NoPrice /\ usdcValue < HIGH_VALUE_THRESHOLD_USDC
    THEN Finish(c, FALSE, "below_threshold")
    ELSE [c EXCEPT !.pc = "channel"]

StartEmail(fn, d) ==
    IF "RESEND_API_KEY" \notin env
    THEN Finish(Pending(fn, d, "entry"), FALSE, "unconfigured")
    ELSE Pending(fn, d, "profile")

StartAlert(d) ==
    IF ~discord.isInitialized \/ ~discord.client \/ "DISCORD_CHANNEL_ID" \notin env
    THEN Finish(Pending(AlertSender, d, "entry"), FALSE, "unconfigured")
    ELSE IF d.currency = "USDC"
         THEN AfterValue(Pending(AlertSender, d, "entry"), d.price)
         ELSE Pending(AlertSender, d, "price")

\* fetchSolPrice: the price returned and the cache afterwards
FetchSolPrice(cached, fresh, answer) ==
    IF cached # NoPrice /\ fresh THEN <<cached, cached>>
    ELSE IF answer # NoPrice THEN <<answer, answer>>
    ELSE IF cached # NoPrice THEN <<cached, cached>>
    ELSE <<FallbackSolPrice, cached>>

Suspended(pc) == call.status = "pending" /\ call.pc = pc

NotifyCall(fn, d) ==
    /\ call.status # "pending"
    /\ call' = IF fn \in EmailSenders THEN StartEmail(fn, d) ELSE StartAlert(d)
    /\ UNCHANGED <<env, discord, store, notifications>>
    /\ UNCHANGED listenerVars

ProfileAnswers(outcome) ==
    /\ Suspended("profile")
    /\ call' = AfterProfile(call, GetUserProfile(call.data.wallet, outcome))
    /\ UNCHANGED <<env, discord, store, notifications>>
    /\ UNCHANGED listenerVars

PriceAnswers(fresh, answer) ==
    /\ Suspended("price")
    /\ LET r == FetchSolPrice(discord.cachedSolPrice, fresh, answer)
       IN /\ discord' = [discord EXCEPT !.cachedSolPrice = r[2]]
          /\ call' = AfterValue(call, IF call.data.price = NoPrice THEN NoPrice
                                      ELSE call.data.price * r[1])
    /\ UNCHANGED <<env, store, notifications>>
    /\ UNCHANGED listenerVars

ChannelAnswers(outcome) ==
    /\ Suspended("channel")
    /\ call' = CASE outcome = "throw" -> Finish(call, TRUE, "caught")
                 [] outcome \in {"null", "not_text"} -> Finish(call, FALSE, "no_channel")
                 [] outcome = "text" ->
                       IF call.data.price = NoPrice
                       THEN Finish(call, TRUE, "caught")
                       ELSE [call EXCEPT !.pc = "send"]
    /\ UNCHANGED <<env, discord, store, notifications>>
    /\ UNCHANGED listenerVars

SendAnswers(outcome) ==
    /\ Suspended("send")
    /\ outcome = "error" => call.fn \in EmailSenders
    /\ call' = CASE outcome = "ok" -> Finish(call, FALSE, "sent")
                 [] outcome = "error" -> Finish(call, FALSE, "send_failed")
                 [] outcome = "throw" -> Finish(call, TRUE, "caught")
    /\ UNCHANGED <<env, discord, store, notifications>>
    /\ UNCHANGED listenerVars

(***************************************************************************)
(* initializeDiscord (part_000 lines 65-107), called once by the host, and *)
(* shutdownDiscord (lines 112-119).  The promise the call awaits is        *)
(* settled by the first of: the client's clientReady event, its error      *)
(* event, the rejection of client.login.  Each listener is registered      *)
(* with once() and nothing removes it.                                     *)
(***************************************************************************)
InitFailures == {"error_event", "login_rejected"}

\* the catch block (lines 102-106); a client whose login was rejected emits
\* no clientReady, a client that emitted error may still do so
AfterInitFails(d, cause) ==
    [d EXCEPT !.client = FALSE, !.isInitialized = FALSE, !.init = "failed",
              !.readyListener = (cause = "error_event")]

InitializeDiscord ==
    /\ discord.init = "none"
    /\ discord' = IF {"DISCORD_BOT_TOKEN", "DISCORD_CHANNEL_ID"} \subseteq env
                  THEN [discord EXCEPT !.client = TRUE, !.init = "waiting",
                                       !.readyListener = TRUE]
                  ELSE [discord EXCEPT !.init = "unconfigured"]
    /\ UNCHANGED <<env, call, store, notifications>>
    /\ UNCHANGED listenerVars

\* the once('clientReady') listener runs (lines 92-96)
ClientReady ==
    /\ discord.readyListener
    /\ discord' = [discord EXCEPT !.isInitialized = TRUE, !.readyListener = FALSE,
                                  !.init = IF @ = "waiting" THEN "ready" ELSE @]
    /\ UNCHANGED <<env, call, store, notifications>>
    /\ UNCHANGED listenerVars

\* the awaited promise rejects while the call is waiting
InitFails(cause) ==
    /\ discord.init = "waiting"
    /\ discord' = AfterInitFails(discord, cause)
    /\ UNCHANGED <<env, call, store, notifications>>
    /\ UNCHANGED listenerVars

\* shutdownDiscord with the outcome of client.destroy()
ShutdownDiscord(destroyed) ==
    /\ discord' = IF discord.client /\ discord.isInitialized /\ destroyed
                  THEN [discord EXCEPT !.client = FALSE, !.isInitialized = FALSE]
                  ELSE discord
    /\ UNCHANGED <<env, call, store, notifications>>
    /\ UNCHANGED listenerVars

\* the notifier modules loaded in a process that runs no listener socket
NotifyInit ==
    /\ env \in {RequiredVars \cup e : e \in SUBSET NotifierVars}
    /\ call = NoCall
    /\ discord = DiscordAtLoad
    /\ readyState = "NONE"
    /\ reconnectAttempts = 0
    /\ timers = << >>
    /\ pingInterval = "null"
    /\ isShuttingDown = FALSE
    /\ exitTimer = FALSE
    /\ exited = FALSE
    /\ exitCode = NoExit
    /\ sent = << >>
    /\ nFrames = 0
    /\ handlers = {}
    /\ store \in InitialStores
    /\ notifications = << >>
    /\ closesSinceOpen = 0
    /\ framesSpanSockets = FALSE

NotifyNext ==
    \/ \E fn \in Senders, d \in NotificationData : NotifyCall(fn, d)
    \/ \E o \in ProfileOutcomes : ProfileAnswers(o)
    \/ \E fresh \in BOOLEAN, a \in JupiterAnswers : PriceAnswers(fresh, a)
    \/ \E o \in ChannelOutcomes : ChannelAnswers(o)
    \/ \E o \in SendOutcomes : SendAnswers(o)
    \/ InitializeDiscord
    \/ ClientReady
    \/ \E c \in InitFailures : InitFails(c)
    \/ \E destroyed \in BOOLEAN : ShutdownDiscord(destroyed)

NotifySpec == NotifyInit /\ [][NotifyNext]_vars

(***************************************************************************)
(* Properties                                                              *)
(***************************************************************************)

\* A step in which invocation h has its write applied to the table
Writes(h) == h \in handlers /\ h \notin handlers' /\ store' # store

SameButTimes(r1, r2) ==
    [r1 EXCEPT !.updated_at = 0, !.listed_at = IF @ = NullTime THEN @ ELSE 0]
    = [r2 EXCEPT !.updated_at = 0, !.listed_at = IF @ = NullTime THEN @ ELSE 0]

\* C1: messages are handled one at a time: two reconciliations of the same
\* asset are never in flight together.
C1_OneReconciliationPerAsset ==
    \A h1, h2 \in handlers : h1.ev.mint = h2.ev.mint => h1 = h2

\* C2: reconciling an event a second time, against the row that its first
\* reconciliation inserted into a table without the asset, leaves that row as
\* it was, timestamps aside.
C2_TwiceIsOnce ==
    [][\A h \in handlers :
          (/\ Writes(h)
           /\ h.pc = "update"
           /\ HasRow(store, h.ev.mint)
           /\ RowOf(store, h.ev.mint).updated_at < h.seq
           /\ SameButTimes(RowOf(store, h.ev.mint), InsertPayload(h.ev, h.seq)))
          => SameButTimes(RowOf(store', h.ev.mint), RowOf(store, h.ev.mint))]_vars

\* C3: the reconnect counter is the number of closes, with shutdown not
\* requested, since the last open (or since the start).
C3_AttemptsCountCloses == reconnectAttempts = closesSinceOpen

C3_Witness ==
    /\ nFrames > 0
    /\ readyState = "CLOSED"
    /\ reconnectAttempts = 1
    /\ timers # << >>

\* C4: a pending reconnect is delayed by 2000, 4000, 8000, 16000, 30000, 30000 ms
\* for attempts 1..6, by 30000 ms beyond, and never by more than 30000 ms.
DelayTable == <<2000, 4000, 8000, 16000, 30000, 30000>>

C4_BackoffDelays ==
    \A i \in 1..Len(timers) :
        /\ reconnectAttempts >= 1
        /\ timers[i] = IF reconnectAttempts <= Len(DelayTable)
                       THEN DelayTable[reconnectAttempts]
                       ELSE 30000
        /\ timers[i] <= 30000

C4_Witness == reconnectAttempts = 6 /\ timers = <<30000>>

\* C5: while shutdown is not requested, a closed socket is eventually followed
\* by a new connection attempt.
C5_NeverGivesUp ==
    (readyState = "CLOSED" /\ ~isShuttingDown)
        ~> (readyState = "CONNECTING" \/ isShuttingDown)

C5_Witness ==
    readyState = "CONNECTING" /\ reconnectAttempts = 4 /\ ~isShuttingDown

\* C6: every row has at most one of price_sol and price_native set, and an
\* unlisted row has no listing field set.
RowWellFormed(r) ==
    /\ r.price_sol = NullPrice \/ r.price_native = NullPrice
    /\ ~r.is_listed =>
          /\ r.price_lamports = NullInt
          /\ r.price_sol = NullPrice
          /\ r.price_native = NullPrice
          /\ r.currency_address = Null
          /\ r.marketplace = Null
          /\ r.listed_at = NullTime

C6_RowsWellFormed == \A r \in store : RowWellFormed(r)

\* a row inserted by the USDC listing, then relisted in SOL by an update
C6_Witness ==
    \E r \in store :
        /\ r.full_name = LongName
        /\ r.updated_at = 2
        /\ r.is_listed
        /\ r.price_sol # NullPrice

\* C7: a SALE or ACCEPT_BID whose write succeeds leaves the row owned by the
\* event's buyer and unlisted, on the insert and on the update branch.
C7_SaleSetsBuyer ==
    [][\A h \in handlers :
          (Writes(h) /\ h.ev.txType \in SaleKinds /\ Truthy(h.ev.buyer))
          => /\ RowOf(store', h.ev.mint).owner = h.ev.buyer
             /\ ~RowOf(store', h.ev.mint).is_listed]_vars

\* C8: once the reconciliations are over, every row this run wrote has had a
\* summary handed to the notification service.
C8_WritesAreNotified ==
    (~exited /\ handlers = {}) =>
        \A r \in store :
            r.updated_at > 0 =>
                \E i \in 1..Len(notifications) : notifications[i].mint = r.mint_address

\* C9: the writes of two events received on one connection for one asset are
\* applied in the order of arrival: a write never lands on a row last written
\* for an event that arrived later.
C9_WritesInArrivalOrder ==
    [][\A h \in handlers :
          (Writes(h) /\ ~framesSpanSockets /\ HasRow(store, h.ev.mint))
          => RowOf(store, h.ev.mint).updated_at < h.seq]_vars

\* C10: the handling of a frame (its receipt, its lookup, its write), however
\* it ends, leaves the socket, the reconnect counter, the timers and the
\* process as they are, and an open socket goes on accepting frames.
FrameStep == nFrames' # nFrames \/ (handlers' # handlers /\ exited' = exited)

C10_FailuresIsolated ==
    /\ [][FrameStep => UNCHANGED <<readyState, reconnectAttempts, timers,
                                   pingInterval, isShuttingDown, exitTimer,
                                   exited>>]_vars
    /\ [](( ~exited /\ readyState = "OPEN" /\ nFrames < MaxFrames)
            => \A f \in Frames : ENABLED Receive(f))

\* the second frame is being reconciled on the socket that delivered a first
\* frame which wrote nothing
C10_Witness ==
    /\ readyState = "OPEN"
    /\ reconnectAttempts = 0
    /\ nFrames = 2
    /\ store = {}
    /\ \E h \in handlers : h.seq = 2

\* C11: a shutdown request leaves the reconciliations in flight as they are
\* and does not end the process; the process ends only when the exit timer
\* that shutdown armed fires, and until then the lookup or the write of every
\* reconciliation in flight can complete.
C11_GraceForInFlight ==
    /\ [][isShuttingDown' # isShuttingDown
            => (handlers' = handlers /\ store' = store /\ ~exited')]_vars
    /\ [][exited' # exited => exitTimer]_vars
    /\ [](~exited =>
            \A h \in handlers :
                IF h.pc = "select"
                THEN ENABLED SelectDone(h, "ok")
                ELSE ENABLED WriteDone(h, "ok"))

\* shutdown has been requested on a socket that was created after the last
\* frame arrived, the exit timer is pending, and a reconciliation started
\* before the request is about to write its row
C11_Witness ==
    /\ isShuttingDown
    /\ exitTimer
    /\ ~exited
    /\ readyState = "CONNECTING"
    /\ \E h \in handlers :
          h.pc \in {"insert", "update"} /\ StoreAfterWrite(store, h) # store

\* C12: after a shutdown request, whatever the state of the connection, the
\* process eventually exits; its exit status is 0 and does not change.
C12_ShutdownExitsZero ==
    /\ isShuttingDown ~> exited
    /\ []((exited /\ isShuttingDown) => exitCode = ExitSuccess)
    /\ [][exitCode # NoExit => exitCode' = exitCode]_vars

\* the process has exited after a request that came when two connects in a
\* row had failed
C12_Witness ==
    exited /\ isShuttingDown /\ exitCode = ExitSuccess /\ reconnectAttempts = 2

\* C13: once shutdown has been requested, no frame starts a reconciliation.
C13_NoNewWorkAfterSignal ==
    [][isShuttingDown
        => \A h \in handlers' : h \in handlers \/ h.pc # "select"]_vars

\* C14: once shutdown has been requested no socket is created and no
\* reconnect is scheduled.
C14_NoSocketAfterSignal ==
    [][isShuttingDown
        => /\ ~(readyState' = "CONNECTING"
                /\ (readyState # "CONNECTING" \/ timers' # timers))
           /\ Len(timers') <= Len(timers)]_vars

\* one close without shutdown has scheduled one reconnect since the last open;
\* its timer has fired, the socket is closed and nothing is scheduled: either
\* the timer fired after the request and connected nothing, or the socket it
\* created closed after the request and scheduled nothing
C14_Witness ==
    /\ isShuttingDown
    /\ ~exited
    /\ readyState = "CLOSED"
    /\ timers = << >>
    /\ reconnectAttempts = 1

\* C15: a LIST or EDIT_SINGLE_LISTING whose write succeeds, on the insert or
\* on the update branch, leaves the row listed, owned by the event's seller,
\* priced from the gross amount and currency, with marketplace 'tensor', the
\* currency address set and listed_at the processing time.
C15_ListingRecorded ==
    [][\A h \in handlers :
          (Writes(h) /\ h.ev.txType \in ListKinds /\ Truthy(h.ev.seller))
          => LET r == RowOf(store', h.ev.mint)
             IN  /\ r.is_listed
                 /\ r.owner = h.ev.seller
                 /\ (IF IsUSDC(h.ev) THEN r.price_native ELSE r.price_sol)
                        = Price(h.ev)
                 /\ r.marketplace = "tensor"
                 /\ r.currency_address
                        = (IF IsUSDC(h.ev) THEN USDC_MINT ELSE SOL_MINT)
                 /\ r.listed_at = h.seq]_vars

\* C16: a DELIST whose update of a listed row succeeds leaves the row
\* unlisted with every listing field null.
C16_DelistClearsListing ==
    [][\A h \in handlers :
          (/\ Writes(h)
           /\ h.pc = "update"
           /\ h.ev.txType = "DELIST"
           /\ RowOf(store, h.ev.mint).is_listed)
          => LET r == RowOf(store', h.ev.mint)
             IN  /\ ~r.is_listed
                 /\ r.price_lamports = NullInt
                 /\ r.price_sol = NullPrice
                 /\ r.price_native = NullPrice
                 /\ r.currency_address = Null
                 /\ r.marketplace = Null
                 /\ r.listed_at = NullTime]_vars

\* the row listed by wallet S before the start has been delisted by the first
\* frame: only a DELIST update leaves S the owner of an unlisted row
C16_Witness ==
    \E r \in store : r.owner = "S" /\ ~r.is_listed /\ r.updated_at = 1

\* C17: a transaction frame whose kind is not one of the five supported kinds
\* is handled without a lookup or a write (the table is unchanged, for a known
\* and for an unknown asset) and without a notification.
UnhandledFrame == JsonFrame("newTransaction", FALSE, TRUE, EvBid)

C17_UnhandledKindNoEffect ==
    [][\A f \in Frames :
          (/\ Classify(f) = "transaction"
           /\ f.ev.txType \notin SupportedKinds
           /\ Receive(f))
          => UNCHANGED <<store, handlers, notifications>>]_vars

\* a BID frame can arrive for an asset the table does not hold, while another
\* reconciliation is in flight
C17_Witness ==
    /\ ~exited
    /\ store = {}
    /\ handlers # {}
    /\ UnhandledFrame \in Frames
    /\ ENABLED Receive(UnhandledFrame)

\* C18: an update of an existing row assigns the listing fields from the
\* event alone, and applying the same event's update once more leaves the row
\* as it is, timestamps aside.
ListingColumns == {"is_listed", "price_lamports", "price_sol", "price_native",
                   "currency_address", "marketplace", "listed_at"}

C18_ReplayOnExistingRecord ==
    [][\A h \in handlers :
          (Writes(h) /\ h.pc = "update")
          => LET after == RowOf(store', h.ev.mint)
                 again == ApplyUpdate(after, UpdatePayload(h.ev, h.seq + 1))
             IN  /\ SameButTimes(again, after)
                 /\ \A k \in ListingColumns :
                        after[k] = UpdatePayload(h.ev, h.seq)[k]]_vars

\* the first frame's SALE has updated the row (only an update gives the row
\* to the buyer B), and the update of the same SALE, received again as the
\* second frame, is about to be applied
C18_Witness ==
    /\ \E r \in store : r.owner = "B" /\ r.updated_at = 1
    /\ \E h \in handlers : h.ev = EvSale /\ h.seq = 2 /\ h.pc = "update"

\* C19: a lookup that answers with an error other than "not found" ends the
\* reconciliation: the table is unchanged and no insert or update follows for
\* the event; a lookup that finds no row goes on to the insert.
C19_LookupErrorAborts ==
    /\ [][\A h \in handlers :
            /\ SelectDone(h, "error")
                  => (store' = store /\ \A g \in handlers' : g.seq # h.seq)
            /\ (SelectDone(h, "ok") /\ ~HasRow(store, h.ev.mint))
                  => [h EXCEPT !.pc = "insert"] \in handlers']_vars
    /\ [](\A g \in handlers : g.seq <= nFrames)

\* one lookup has found no row and its insert is pending, while another
\* lookup is still awaited and may fail
C19_Witness ==
    /\ \E h \in handlers : h.pc = "insert"
    /\ \E g \in handlers : g.pc = "select" /\ ENABLED SelectDone(g, "error")

\* C20: a listing in USDC stores grossAmount / 10^6 in price_native and null
\* in price_sol; a listing in any other currency stores grossAmount / 10^9 in
\* price_sol and null in price_native; 600000000 USDC units are 600 and
\* 1500000000 native units 1.5; without a gross amount both prices are null
\* and the row is listed all the same.
C20_PriceNormalised ==
    [][\A h \in handlers :
          (Writes(h) /\ h.ev.txType \in ListKinds)
          => LET r == RowOf(store', h.ev.mint)
                 usdc == h.ev.unit = USDC_MINT
                 perUnit == IF usdc THEN 1000000 ELSE 1000000000
                 set == IF usdc THEN r.price_native ELSE r.price_sol
                 other == IF usdc THEN r.price_sol ELSE r.price_native
             IN  /\ r.is_listed
                 /\ other = NullPrice
                 /\ h.ev.grossAmount = NoAmount => set = NullPrice
                 /\ h.ev.grossAmount > 0 =>
                        /\ set # NullPrice
                        /\ set[2] \in 0..999999999
                        /\ set[2] % (1000000000 \div perUnit) = 0
                        /\ set[1] * perUnit + set[2] \div (1000000000 \div perUnit)
                              = h.ev.grossAmount
                 /\ (usdc /\ h.ev.grossAmount = 600000000) => set = <<600, 0>>
                 /\ (~usdc /\ h.ev.grossAmount = 1500000000)
                        => set = <<1, 500000000>>]_vars

\* the USDC listing of 600000000 units is stored as 600 in price_native
C20_Witness ==
    \E r \in store :
        r.is_listed /\ r.price_native = <<600, 0>> /\ r.price_sol = NullPrice

\* C21: a frame is sent only on an open socket; the keep-alive interval is
\* started by the open of a socket, cancelled by its close and by shutdown;
\* an interval is active only while the socket is open, so never while the
\* connection is down and never two at once.
C21_KeepAliveLifecycle ==
    /\ [](pingInterval = "active" => readyState = "OPEN")
    /\ [][Len(sent') > Len(sent) => readyState' = "OPEN"]_vars
    /\ [][(pingInterval' = "active" /\ pingInterval # "active")
            => (readyState = "CONNECTING" /\ readyState' = "OPEN")]_vars
    /\ [][(readyState' = "CLOSED" /\ readyState # "CLOSED")
            => pingInterval' = "null"]_vars
    /\ [][isShuttingDown' # isShuttingDown => pingInterval' # "active"]_vars

\* the open socket has been pinged once by its interval, and shutdown has
\* cancelled the interval and asked the socket to close
C21_Witness ==
    /\ readyState = "CLOSING"
    /\ isShuttingDown
    /\ pingInterval = "cleared"
    /\ Pings(sent) = 1

\* C22: every open sends, on the socket that opened, one newTransaction
\* subscription for each of the two collection identifiers and one for each of
\* the two collection slugs, those four and no other, before any ping.
MonitoredSubscriptions ==
    {[event |-> "newTransaction", key |-> "collId",
      value |-> "3c8b5c19-68fc-4682-8f13-8abdf9225844"],
     [event |-> "newTransaction", key |-> "collId",
      value |-> "6f582e94-e4ed-41ab-9285-4bf456b0768a"],
     [event |-> "newTransaction", key |-> "slug", value |-> "collector_crypt"],
     [event |-> "newTransaction", key |-> "slug", value |-> "phygitals"]}

C22_SubscribesOnEveryOpen ==
    /\ [](readyState \in {"OPEN", "CLOSING"} =>
            /\ Len(sent) >= 4
            /\ {sent[i] : i \in 1..4} = MonitoredSubscriptions
            /\ \A i \in 5..Len(sent) : sent[i].event = "ping")
    /\ [][(readyState = "CONNECTING" /\ readyState' = "OPEN")
            => (Len(sent') = 4 /\ sent = << >>)]_vars

\* a socket created by a reconnect, after a frame had been received on an
\* earlier one, has sent its four subscriptions and then a ping
C22_Witness ==
    /\ readyState = "OPEN"
    /\ framesSpanSockets
    /\ Len(sent) = 5
    /\ sent[5] = Ping

\* C23: the reconnect counter, the reconnect timers and the keep-alive
\* interval change only with a step that closes or opens the socket or with
\* shutdown, never with a transport error alone; a socket's close schedules
\* exactly one reconnect and adds exactly one to the counter, so at most one
\* reconnect is pending and none while a socket lives.
C23_OnlyCloseReconnects ==
    /\ [][(reconnectAttempts' # reconnectAttempts \/ Len(timers') > Len(timers))
            => \/ (readyState = "CONNECTING" /\ readyState' = "OPEN")
               \/ /\ readyState \in {"CONNECTING", "OPEN", "CLOSING"}
                  /\ readyState' = "CLOSED"
                  /\ reconnectAttempts' = reconnectAttempts + 1
                  /\ Len(timers') = Len(timers) + 1]_vars
    /\ [][(pingInterval' # pingInterval /\ ~exited')
            => (readyState' # readyState \/ isShuttingDown')]_vars
    /\ [](Len(timers) <= 1)
    /\ [](readyState \in {"CONNECTING", "OPEN", "CLOSING"} => timers = << >>)

\* a second connect in a row is under way: its socket can emit an error and
\* then a close, as a refused connection does
C23_Witness ==
    /\ readyState = "CONNECTING"
    /\ reconnectAttempts = 2
    /\ timers = << >>
    /\ ~isShuttingDown
    /\ ENABLED SocketError
    /\ ENABLED SocketClose

\* C24: a parsed frame is a keep-alive ack if its type is 'pong', else an
\* error report if it has an error discriminator, else a transaction if its
\* type is 'newTransaction' and it carries data.tx, else unrecognized; only a
\* transaction starts a lookup, and no frame changes the table on receipt.
ExpectedClass(f) ==
    CASE f.type = "pong" -> "pong"
      [] f.type # "pong" /\ f.err -> "error"
      [] f.type # "pong" /\ ~f.err /\ f.type = "newTransaction" /\ f.hasTx
            -> "transaction"
      [] OTHER -> "unrecognized"

PongErrorTxFrame == JsonFrame("pong", TRUE, TRUE, EvListSol)

ErrorTxFrame == JsonFrame("newTransaction", TRUE, TRUE, EvListSol)

C24_ClassifiedByPrecedence ==
    /\ [](\A f \in Frames : f.raw = "json" => Classify(f) = ExpectedClass(f))
    /\ [][\A f \in Frames :
            (f.raw = "json" /\ Receive(f))
            => /\ store' = store
               /\ handlers' # handlers
                    => (f.type = "newTransaction" /\ f.hasTx /\ ~f.err)]_vars

\* a frame that is an error report and carries a transaction, and one that is
\* a pong as well, can arrive for an asset the table does not hold
C24_Witness ==
    /\ readyState = "OPEN"
    /\ store = {}
    /\ nFrames = 1
    /\ handlers = {}
    /\ {PongErrorTxFrame, ErrorTxFrame} \subseteq Frames
    /\ ENABLED Receive(ErrorTxFrame)
    /\ ENABLED Receive(PongErrorTxFrame)

\* C25: while a reconciliation awaits the storage the close of the socket is
\* handled at once (interval cancelled, reconnect scheduled) and leaves the
\* reconciliation as it is; a new socket can then be created, and the awaited
\* lookup or write still completes.
C25_CloseDuringReconciliation ==
    /\ []((/\ ~exited
            /\ handlers # {}
            /\ readyState \in {"CONNECTING", "OPEN", "CLOSING"}
            /\ (isShuttingDown \/ reconnectAttempts < AttemptCap))
           => ENABLED SocketClose)
    /\ [][(readyState' = "CLOSED" /\ readyState # "CLOSED" /\ ~exited')
            => /\ handlers' = handlers
               /\ store' = store
               /\ pingInterval' = "null"
               /\ ~isShuttingDown => Len(timers') = Len(timers) + 1]_vars
    /\ []((~exited /\ readyState \in {"CLOSED", "CONNECTING"}) =>
            /\ timers # << >> => ENABLED ReconnectTimerFires
            /\ \A h \in handlers :
                  IF h.pc = "select"
                  THEN ENABLED SelectDone(h, "ok")
                  ELSE ENABLED WriteDone(h, "ok"))

\* the socket has closed and its reconnect is pending while a reconciliation
\* started on it is about to write its row
C25_Witness ==
    /\ readyState = "CLOSED"
    /\ ~isShuttingDown
    /\ timers = <<2000>>
    /\ pingInterval = "null"
    /\ \E h \in handlers :
          h.pc \in {"insert", "update"} /\ StoreAfterWrite(store, h) # store

\* C28: the table holds one row for an asset at most; a successful write for
\* an asset without a row creates its row (unlisted when the event is a
\* DELIST, SALE or ACCEPT_BID); once the asset has a row, the events for it
\* update that row and none attempts to create another; no step removes a
\* row, so the set of assets in the table only grows.
MintsOf(rows) == {r.mint_address : r \in rows}

C28_RecordLifecycle ==
    /\ [](\A r1, r2 \in store : r1.mint_address = r2.mint_address => r1 = r2)
    /\ [][MintsOf(store) \subseteq MintsOf(store')]_vars
    /\ [][\A h \in handlers :
            (Writes(h) /\ ~HasRow(store, h.ev.mint))
            => /\ MintsOf(store') = MintsOf(store) \cup {h.ev.mint}
               /\ h.ev.txType \notin ListKinds
                    => ~RowOf(store', h.ev.mint).is_listed]_vars
    /\ [][\A h \in handlers :
            (Writes(h) /\ HasRow(store, h.ev.mint))
            => MintsOf(store') = MintsOf(store)]_vars
    /\ [][\A h \in handlers :
            (h.pc = "insert" /\ h \notin handlers' /\ ~exited')
            => ~HasRow(store, h.ev.mint)]_vars

\* C29: the row created for an asset has for owner the first non-empty of
\* mint.owner, the event's seller, the event's buyer, and null when all three
\* are empty, whatever the kind of the event.
C29_InsertOwnerPriority ==
    [][\A h \in handlers :
          (Writes(h) /\ h.pc = "insert")
          => RowOf(store', h.ev.mint).owner
                = (CASE Truthy(h.ev.owner) -> h.ev.owner
                     [] ~Truthy(h.ev.owner) /\ Truthy(h.ev.seller) -> h.ev.seller
                     [] /\ ~Truthy(h.ev.owner)
                        /\ ~Truthy(h.ev.seller)
                        /\ Truthy(h.ev.buyer) -> h.ev.buyer
                     [] OTHER -> Null)]_vars

\* the ACCEPT_BID without owner or seller has created the row of m2 for its
\* buyer, and a DELIST without any party a row of m1 without owner
C29_Witness ==
    /\ \E r \in store : r.mint_address = "m2" /\ r.owner = "B"
    /\ \E r \in store : r.mint_address = "m1" /\ r.owner = Null

\* C26: in a run in which TENSOR_API_KEY, SUPABASE_URL or SUPABASE_SERVICE_KEY
\* is not set the process has exited with a status other than 0 without
\* creating a socket or touching the storage, and nothing happens afterwards.
C26_MissingCredentialIsFatal ==
    /\ [](~({"TENSOR_API_KEY", "SUPABASE_URL", "SUPABASE_SERVICE_KEY"} \subseteq env)
            => /\ exited
               /\ exitCode \notin {NoExit, 0}
               /\ readyState = "NONE"
               /\ sent = << >>
               /\ timers = << >>
               /\ pingInterval = "null"
               /\ nFrames = 0
               /\ handlers = {}
               /\ store \in InitialStores)
    /\ [][{"TENSOR_API_KEY", "SUPABASE_URL", "SUPABASE_SERVICE_KEY"}
            \subseteq env]_vars

\* the run in which the Tensor key is set and the storage URL and service key
\* are not
C26_Witness ==
    /\ env = {"TENSOR_API_KEY"}
    /\ exited
    /\ exitCode = ExitFailure

\* C27: no call of sendSaleNotification, sendOfferNotification,
\* sendListNotification, sendDelistNotification or sendHighValueListingAlert
\* ever ends by throwing, a suspended call can always go on, and no step of a
\* call changes the listing table.
C27_DispatchFailuresContained ==
    /\ [](call # NoCall => call.status \in {"pending", "returned"})
    /\ [](call.status = "pending" => ENABLED NotifyNext)
    /\ [][call' # call => store' = store]_vars

\* the Discord alert's channel.send threw and the call returned all the same
C27_Witness ==
    /\ call # NoCall
    /\ call.fn = AlertSender
    /\ call.pc = "send"
    /\ call.log = "caught"
    /\ call.status = "returned"

\* C30: once shutdown has been requested no socket opens: no subscription is
\* sent and no keep-alive interval is started.
C30_NeverOpensAfterSignal ==
    [][isShuttingDown
        => /\ ~(readyState' = "OPEN" /\ readyState # "OPEN")
           /\ Len(sent') <= Len(sent)
           /\ ~(pingInterval' = "active" /\ pingInterval # "active")]_vars

\* the sockets that have not yet emitted close
LiveSockets == IF readyState \in {"CONNECTING", "OPEN", "CLOSING"} THEN 1 ELSE 0

\* C31: at every moment the sockets that have not emitted close and the
\* pending reconnect timers are at most one together; a socket is created
\* only by a firing reconnect timer (after startup), and a reconnect timer
\* is armed only by a step in which the current socket emits close.
C31_OneSocketOrOneTimer ==
    /\ [](LiveSockets + Len(timers) <= 1)
    /\ [][(readyState # "CONNECTING" /\ readyState' = "CONNECTING")
            => (LiveSockets = 0 /\ Len(timers) = 1 /\ timers' = << >>)]_vars
    /\ [][Len(timers') > Len(timers)
            => (LiveSockets = 1 /\ readyState' = "CLOSED" /\ Len(timers') = 1)]_vars

\* the second close in a row: the first close's timer fired and created the
\* socket whose close armed the one timer now pending
C31_Witness ==
    /\ reconnectAttempts = 2
    /\ readyState = "CLOSED"
    /\ Len(timers) = 1
    /\ ~isShuttingDown

\* the columns that identify and describe the asset
AssetColumns == {"mint_address", "name", "full_name", "collection_slug",
                 "image", "attributes"}

\* the event without the metadata of its asset
WithoutMetadata(ev) ==
    [ev EXCEPT !.name = NullName, !.owner = Undef, !.collId = Undef,
               !.mintCollId = Undef, !.image = Undef, !.attributes = Undef]

\* C32: a successful update of an existing record leaves mint_address, name,
\* full_name, collection_slug, image and attributes as they were, changes
\* the owner for no DELIST, changes no column outside the listing columns,
\* updated_at and owner, and writes what the same event without its asset
\* metadata would write.
C32_UpdateTouchesListingOnly ==
    [][\A h \in handlers :
          (Writes(h) /\ h.pc = "update")
          => LET before == RowOf(store, h.ev.mint)
                 after == RowOf(store', h.ev.mint)
             IN  /\ DOMAIN after = DOMAIN before
                 /\ \A k \in AssetColumns : after[k] = before[k]
                 /\ \A k \in DOMAIN before :
                        after[k] # before[k]
                        => k \in ListingColumns \cup {"updated_at", "owner"}
                 /\ after.owner # before.owner
                        => h.ev.txType \in ListKinds \cup SaleKinds
                 /\ after = ApplyUpdate(before,
                                        UpdatePayload(WithoutMetadata(h.ev), h.seq))
                 /\ store' \ {after} = store \ {before}]_vars

\* the record of m1, created from an event named "card" with no image, after
\* the update of the USDC listing whose metadata names owner C, a longer name
\* and an image: the listing is the event's, the asset columns are the
\* record's
C32_Witness ==
    \E r \in store :
        /\ r.mint_address = "m1"
        /\ r.currency_address = USDC_MINT
        /\ r.owner = "A"
        /\ r.full_name = ShortName
        /\ r.image = Null

\* C33: isInitialized is true only while client is non-null; once
\* initializeDiscord has failed both stay reset; and a call of
\* sendHighValueListingAlert that starts while either is unset ends at its
\* guard, so that an alert is sent only by a call that found both set.
C33_InitializedOnlyWithClient ==
    /\ [](discord.isInitialized => discord.client)
    /\ [](discord.init = "failed" => (~discord.client /\ ~discord.isInitialized))
    /\ [][(call' # call /\ call.status # "pending" /\ call'.fn = AlertSender
              /\ ~(discord.isInitialized /\ discord.client))
            => call'.log = "unconfigured"]_vars

====
